---- MODULE Spec2Model ----
(***************************************************************************)
(* A model of science_jubilee/tools/Pipette.py: the Pipette tool and its   *)
(* pipette_iterator.                                                       *)
(*                                                                         *)
(* Every public method of Pipette is one action.  A method is translated   *)
(* as an operator over a record `c` that holds the object's attributes,    *)
(* the machine's position, the commands sent to the machine during the     *)
(* call and the exception raised (err).  Once err is set every later step  *)
(* of the method is skipped, as after a Python raise; what was assigned    *)
(* before the raise stays assigned.                                        *)
(*                                                                         *)
(* The tool is the machine's active tool throughout (requires_active_tool  *)
(* passes).  X, Y and Z are in half millimetres, so that stir's 0.5 mm     *)
(* clearance and Python's round() are exact on integers; V is the plunger  *)
(* axis.                                                                   *)
(***************************************************************************)
EXTENDS Integers, Sequences, FiniteSets, TLC

VARIABLES has_tip, is_primed, current_well, first_available_tip,
          tipiterator, position, z_offset, cmds, last, advances, inventory

vars == <<has_tip, is_primed, current_well, first_available_tip,
          tipiterator, position, z_offset, cmds, last, advances, inventory>>

\* Python's None and a present value, for optional attributes and arguments.
None == <<>>
Some(v) == <<v>>

OK == "ok"

(***************************************************************************)
(* Bounds of the model.                                                    *)
(***************************************************************************)
\* the plunger stays within MaxTravel of zero_position at the end of a call
MaxTravel == 4
\* the longest tip rack handed to add_tiprack
MaxRack == 2
\* prev() is not called once the cursor is MaxUnderrun below zero
MaxUnderrun == 1

(***************************************************************************)
(* Pipette configuration (the constructor's arguments).                    *)
(***************************************************************************)
zero_position == 10
blowout_position == 12
drop_tip_position == 14
mm_to_ul == 2
\* Tool.tool_offset, the z offset of the tool without a tip
tool_offset == 100
\* self._machine.deck.safe_z
safe_z == 120

(***************************************************************************)
(* Labware: wells of a plate and tips of a tip rack (Well objects).        *)
(***************************************************************************)
half == 1
mm(n) == 2 * n * half

Wells == {"A1", "A2"}
TipWells == {"T1", "T2", "T3"}

WellData ==
    [w \in Wells \cup TipWells |->
        CASE w = "A1" -> [x |-> mm(10), y |-> mm(10), z |-> mm(5), top_ |-> mm(20), diameter |-> mm(6)]
          [] w = "A2" -> [x |-> mm(20) + half, y |-> mm(10), z |-> mm(6), top_ |-> mm(21), diameter |-> mm(6)]
          [] w = "T1" -> [x |-> mm(50), y |-> mm(30), z |-> mm(15), top_ |-> mm(15), diameter |-> mm(3)]
          [] w = "T2" -> [x |-> mm(55), y |-> mm(30), z |-> mm(15), top_ |-> mm(15), diameter |-> mm(3)]
          [] w = "T3" -> [x |-> mm(60), y |-> mm(30), z |-> mm(15), top_ |-> mm(15), diameter |-> mm(3)]]

\* A tip rack with its first n tips, in the order the labware indexes them.
AllTips == <<"T1", "T2", "T3">>
Rack(n) == SubSeq(AllTips, 1, n)

\* Location descriptors: a Well, a Location (a point within a labware's
\* well) and an (x, y, z) tuple.
WellLoc(w) == [kind |-> "Well", well |-> w, point |-> <<>>]
LocationLoc(w, dz) ==
    [kind |-> "Location", well |-> w,
     point |-> <<WellData[w].x, WellData[w].y, WellData[w].z + dz>>]
TupleLoc(x, y, z) == [kind |-> "Tuple", well |-> "", point |-> <<x, y, z>>]
NoneLoc == [kind |-> "None", well |-> "", point |-> <<>>]

\* A tuple (None, None, z): a drop location that asks for no x/y travel.
TupleZLoc(z) == [kind |-> "TupleZ", well |-> "", point |-> <<z>>]

\* Labware._getxyz: the coordinates a descriptor resolves to.
_getxyz(location) ==
    CASE location.kind = "Well" ->
            [x |-> Some(WellData[location.well].x), y |-> Some(WellData[location.well].y),
             z |-> WellData[location.well].z]
      [] location.kind = "Location" ->
            [x |-> Some(location.point[1]), y |-> Some(location.point[2]), z |-> location.point[3]]
      [] location.kind = "Tuple" ->
            [x |-> Some(location.point[1]), y |-> Some(location.point[2]), z |-> location.point[3]]
      [] location.kind = "TupleZ" ->
            [x |-> None, y |-> None, z |-> location.point[1]]

\* Python's round(x) and round(x, 2) on a length in half millimetres:
\* round(x) goes to the nearest whole millimetre, a half to the even one.
round0(u) ==
    IF u % 2 = 0 THEN u
    ELSE LET n == (u - 1) \div 2 IN IF n % 2 = 0 THEN 2 * n ELSE 2 * (n + 1)
round2(u) == u

(***************************************************************************)
(* The machine (Motion Controller): it records each command and moves.     *)
(***************************************************************************)
Cmd(name) ==
    [cmd |-> name, x |-> None, y |-> None, z |-> None, v |-> None,
     s |-> None, i |-> None, param |-> "", wait |-> FALSE]

raise(c, e) == IF c.err = OK THEN [c EXCEPT !.err = e] ELSE c

setattr(c, f, val) == IF c.err = OK THEN [c EXCEPT ![f] = val] ELSE c

send(c, command, pos) ==
    IF c.err = OK
    THEN [c EXCEPT !.cmds = Append(@, command), !.position = pos]
    ELSE c

safe_z_movement(c) ==
    send(c, Cmd("safe_z_movement"),
         [c.position EXCEPT !.Z = IF @ < safe_z THEN safe_z ELSE @])

move_to_xy(c, x, y) ==
    send(c, [Cmd("move_to") EXCEPT !.x = Some(x), !.y = Some(y)],
         [c.position EXCEPT !.X = x, !.Y = y])

move_to_z(c, z) ==
    send(c, [Cmd("move_to") EXCEPT !.z = Some(z)], [c.position EXCEPT !.Z = z])

\* move_to(z=z, s=800, param='H4'): the probing move of a tip pickup
move_to_z_probe(c, z) ==
    send(c, [Cmd("move_to") EXCEPT !.z = Some(z), !.s = Some(800), !.param = "H4"],
         [c.position EXCEPT !.Z = z])

move_to_v(c, v, s, wait) ==
    send(c, [Cmd("move_to") EXCEPT !.v = Some(v), !.s = Some(s), !.wait = wait],
         [c.position EXCEPT !.V = v])

\* move(dz=...), move(v=...): relative moves
move_dz(c, dz) ==
    send(c, [Cmd("move") EXCEPT !.z = Some(dz)], [c.position EXCEPT !.Z = @ + dz])

move_v(c, dv) ==
    send(c, [Cmd("move") EXCEPT !.v = Some(dv)], [c.position EXCEPT !.V = @ + dv])

\* gcode('G10 P{index} Z{new_z}'): sets the tool's z offset
gcode_G10(c, new_z) ==
    setattr(send(c, [Cmd("G10") EXCEPT !.z = Some(new_z)], c.position), "z_offset", new_z)

\* gcode('G2 X.. Y.. [Z..] I.. J0'): an arc that ends at (x, y[, z])
gcode_G2(c, x, y, z, i) ==
    send(c, [Cmd("G2") EXCEPT !.x = Some(x), !.y = Some(y), !.z = z, !.i = Some(i)],
         [c.position EXCEPT !.X = x, !.Y = y, !.Z = IF z = None THEN @ ELSE z[1]])

gcode_M400(c) == send(c, Cmd("M400"), c.position)

(***************************************************************************)
(* Exceptions.                                                             *)
(***************************************************************************)
NoTipError == "ToolStateError: No tip is attached"
TipAlreadyAttached == "ToolStateError: Pipette already equipped with a tip"
NotInWell == "ToolStateError: Pipette should be in a well"
NoTipToDrop == "ToolConfigurationError: No pipette tip attached to drop"
StopIteration == "StopIteration"
AttributeError == "AttributeError"
TypeError == "TypeError"
ValueError == "ValueError"

(***************************************************************************)
(* pipette_iterator                                                        *)
(***************************************************************************)
\* pipette_iterator.__init__
pipette_iterator(tiprack) == [exists |-> TRUE, tiprack |-> tiprack, index |-> 0]

\* tiprack[index] as Python indexes a sequence: -len <= index < len
InRange(tiprack, index) == -Len(tiprack) <= index /\ index < Len(tiprack)
GetItem(tiprack, index) ==
    IF index >= 0 THEN tiprack[index + 1] ELSE tiprack[Len(tiprack) + index + 1]

\* next() that moves the cursor on by two
next_skip(c) ==
    IF c.err # OK THEN c
    ELSE IF ~c.tipiterator.exists THEN raise(c, AttributeError)
    ELSE LET it == c.tipiterator IN
         IF InRange(it.tiprack, it.index)
         THEN [c EXCEPT !.ret = Some(GetItem(it.tiprack, it.index)),
                        !.tipiterator.index = @ + 2,
                        !.advances = IF @.live
                                     THEN [@ EXCEPT !.tips = Append(@, GetItem(it.tiprack, it.index))]
                                     ELSE @]
         ELSE raise(c, StopIteration)

\* pipette_iterator.next on self.tipiterator; the tip is left in c.ret
next(c) ==
    IF c.err # OK THEN c
    ELSE IF ~c.tipiterator.exists THEN raise(c, AttributeError)
    ELSE LET it == c.tipiterator IN
         IF InRange(it.tiprack, it.index)
         THEN [c EXCEPT !.ret = Some(GetItem(it.tiprack, it.index)),
                        !.tipiterator.index = @ + 1,
                        !.advances = IF @.live
                                     THEN [@ EXCEPT !.tips = Append(@, GetItem(it.tiprack, it.index))]
                                     ELSE @]
         ELSE raise(c, StopIteration)

\* pipette_iterator.prev on self.tipiterator
prev(c) ==
    IF c.err # OK THEN c
    ELSE IF ~c.tipiterator.exists THEN raise(c, AttributeError)
    ELSE LET c1 == [c EXCEPT !.tipiterator.index = @ - 1,
                             !.advances = [tips |-> <<>>, live |-> FALSE]]
         IN IF c1.tipiterator.index < 0
            THEN raise(c1, StopIteration)
            ELSE [c1 EXCEPT !.ret = Some(GetItem(c1.tipiterator.tiprack, c1.tipiterator.index))]

(***************************************************************************)
(* Pipette                                                                 *)
(***************************************************************************)
\* a tip_check that lets every call through
tip_check_off(c) == c

\* the tip_check decorator: raises before the wrapped method runs
tip_check(c) == IF c.has_tip = FALSE THEN raise(c, NoTipError) ELSE c

vol2move(vol) == vol * mm_to_ul

prime(c, s) == setattr(move_to_v(c, zero_position, s, TRUE), "is_primed", TRUE)

\* _aspirate without the prime of an unprimed tool
_aspirate_noprime(c, vol, s) ==
    LET dv == vol2move(vol) * (-1)
        end_pos == c.position.V + dv
    IN  move_to_v(c, end_pos, s, FALSE)

_aspirate(c, vol, s) ==
    LET c1 == IF c.is_primed = TRUE THEN c ELSE prime(c, 2500)
        dv == vol2move(vol) * (-1)
        end_pos == c1.position.V + dv
    IN  move_to_v(c1, end_pos, s, FALSE)

\* an aspirate that records the well of a Well and not that of a Location
aspirate_well_only(c, vol, location, s) ==
    LET c0 == tip_check(c)
        xyz == _getxyz(location)
        c1 == IF location.kind = "Well" THEN setattr(c0, "current_well", Some(location.well))
              ELSE c0
        c2 == safe_z_movement(c1)
        c3 == move_to_xy(c2, xyz.x[1], xyz.y[1])
        c4 == move_to_z(c3, xyz.z)
    IN  _aspirate(c4, vol, s)

aspirate(c, vol, location, s) ==
    LET c0 == tip_check(c)
        xyz == _getxyz(location)
        c1 == IF location.kind = "Well" THEN setattr(c0, "current_well", Some(location.well))
              ELSE IF location.kind = "Location" THEN setattr(c0, "current_well", Some(location.well))
              ELSE c0
        c2 == safe_z_movement(c1)
        c3 == move_to_xy(c2, xyz.x[1], xyz.y[1])
        c4 == move_to_z(c3, xyz.z)
    IN  _aspirate(c4, vol, s)

\* a _dispense after which the tool no longer counts as primed
_dispense_unprimes(c, vol, s) ==
    LET c0 == tip_check(c)
        dv == vol2move(vol)
        end_pos == c0.position.V + dv
    IN  setattr(move_to_v(c0, end_pos, s, FALSE), "is_primed", FALSE)

_dispense(c, vol, s) ==
    LET c0 == tip_check(c)
        dv == vol2move(vol)
        end_pos == c0.position.V + dv
    IN  move_to_v(c0, end_pos, s, FALSE)

\* a dispense z raised over the bottom of a well for a Location too
dispense_z_any(location) ==
    LET z == _getxyz(location).z IN
    IF location.kind \in {"Well", "Location"}
    THEN IF z = WellData[location.well].z THEN z + mm(10) ELSE z
    ELSE z

\* the z dispense travels to
dispense_z(location) ==
    LET z == _getxyz(location).z IN
    IF location.kind = "Well"
    THEN IF z = WellData[location.well].z THEN z + mm(10) ELSE z
    ELSE z

\* a dispense that lowers the tip before it travels
dispense_z_first(c, vol, location, s) ==
    LET c0 == tip_check(c)
        xyz == _getxyz(location)
        c1 == IF location.kind = "Well" THEN setattr(c0, "current_well", Some(location.well))
              ELSE IF location.kind = "Location" THEN setattr(c0, "current_well", Some(location.well))
              ELSE c0
        c2 == safe_z_movement(c1)
        c3 == move_to_z(c2, dispense_z(location))
        c4 == move_to_xy(c3, xyz.x[1], xyz.y[1])
    IN  _dispense(c4, vol, s)

dispense(c, vol, location, s) ==
    LET c0 == tip_check(c)
        xyz == _getxyz(location)
        c1 == IF location.kind = "Well" THEN setattr(c0, "current_well", Some(location.well))
              ELSE IF location.kind = "Location" THEN setattr(c0, "current_well", Some(location.well))
              ELSE c0
        c2 == safe_z_movement(c1)
        c3 == move_to_xy(c2, xyz.x[1], xyz.y[1])
        c4 == move_to_z(c3, dispense_z(location))
    IN  _dispense(c4, vol, s)

RECURSIVE mix_loop(_, _, _, _)
mix_loop(c, vol, n, s) ==
    IF n <= 0 THEN c ELSE mix_loop(prime(_aspirate(c, vol, s), s), vol, n - 1, s)

mix(c, vol, n, s) ==
    LET c0 == tip_check(c) IN
    IF c0.err # OK THEN c0
    ELSE IF c0.current_well = None THEN raise(c0, AttributeError)
    ELSE LET w == WellData[c0.current_well[1]]
             c1 == move_to_z(c0, w.top_ + mm(2))
             c2 == prime(c1, 2500)
             c3 == move_to_z(c2, WellData[c2.current_well[1]].z)
         IN  mix_loop(c3, vol, n, s)

blowout(c, s) ==
    LET c0 == tip_check(c) IN
    IF c0.err # OK THEN c0
    ELSE IF c0.current_well = None THEN raise(c0, AttributeError)
    ELSE LET well == WellData[c0.current_well[1]]
             c1 == move_to_z(c0, well.top_ + mm(5))
             c2 == move_to_v(c1, blowout_position, s, FALSE)
         IN  prime(c2, 2500)

air_gap(c, vol) ==
    LET c0 == tip_check(c)
        dv == vol2move(vol) * (-1)
    IN  IF c0.err # OK THEN c0
        ELSE IF c0.current_well = None THEN raise(c0, AttributeError)
        ELSE LET well == WellData[c0.current_well[1]]
                 c1 == move_to_z(c0, well.top_ + mm(20))
             IN  move_v(c1, (-1) * dv)
\* one pass of transfer's loop over the destination list
transfer_step(c, vol_, xs, ys, zs, source_well, well, s, blowout_, mix_before, mix_after) ==
    LET d == _getxyz(well)
        c1 == safe_z_movement(c)
        c2 == move_to_xy(c1, xs, ys)
        c3 == move_to_z(c2, zs)
        c4 == IF source_well.kind = "Well" THEN setattr(c3, "current_well", Some(source_well.well))
              ELSE IF source_well.kind = "Location" THEN setattr(c3, "current_well", Some(source_well.well))
              ELSE c3
        c5 == _aspirate(c4, vol_, s)
        c6 == IF mix_before # None THEN mix(c5, mix_before[1][1], mix_before[1][2], 5000) ELSE c5
        c7 == safe_z_movement(c6)
        c8 == move_to_xy(c7, d.x[1], d.y[1])
        c9 == move_to_z(c8, d.z)
        c10 == IF well.kind = "Well" THEN setattr(c9, "current_well", Some(well.well))
               ELSE IF well.kind = "Location" THEN setattr(c9, "current_well", Some(well.well))
               ELSE c9
        c11 == _dispense(c10, vol_, s)
        c12 == IF mix_after # None THEN mix(c11, mix_after[1][1], mix_after[1][2], 5000) ELSE c11
    IN  IF blowout_ # None THEN blowout(c12, 3000) ELSE c12

\* a loop that serves the destinations last to first
RECURSIVE transfer_loop_rev(_, _, _, _, _, _, _, _, _, _, _)
transfer_loop_rev(c, vol_, xs, ys, zs, source_well, wells, s, blowout_, mix_before, mix_after) ==
    IF wells = <<>> \/ c.err # OK THEN c
    ELSE transfer_loop_rev(
            transfer_step(c, vol_, xs, ys, zs, source_well, wells[Len(wells)], s,
                          blowout_, mix_before, mix_after),
            vol_, xs, ys, zs, source_well, SubSeq(wells, 1, Len(wells) - 1), s,
            blowout_, mix_before, mix_after)

RECURSIVE transfer_loop(_, _, _, _, _, _, _, _, _, _, _)
transfer_loop(c, vol_, xs, ys, zs, source_well, wells, s, blowout_, mix_before, mix_after) ==
    IF wells = <<>> \/ c.err # OK THEN c
    ELSE transfer_loop(
            transfer_step(c, vol_, xs, ys, zs, source_well, Head(wells), s,
                          blowout_, mix_before, mix_after),
            vol_, xs, ys, zs, source_well, Tail(wells), s, blowout_, mix_before, mix_after)

\* a transfer that ejects its tip at the end when new_tip is 'always'
transfer_new_tip(c, vol, source_well, destination_well, s, blowout_, mix_before, mix_after, new_tip) ==
    LET c0 == tip_check(c)
        vol_ == vol2move(vol)
        src == _getxyz(source_well)
        c1 == IF c0.is_primed = TRUE THEN c0 ELSE prime(c0, 2500)
        wells == IF destination_well.list THEN destination_well.items
                 ELSE <<destination_well.items[1]>>
        c2 == transfer_loop(c1, vol_, src.x[1], src.y[1], src.z, source_well, wells, s,
                            blowout_, mix_before, mix_after)
    IN  IF new_tip = "always"
        THEN setattr(prime(move_to_v(c2, drop_tip_position, 4000, FALSE), 2500), "has_tip", FALSE)
        ELSE c2

\* destination_well is [list |-> whether a Python list was passed, items |-> the
\* descriptors]; new_tip is accepted and not read.
transfer(c, vol, source_well, destination_well, s, blowout_, mix_before, mix_after, new_tip) ==
    LET c0 == tip_check(c)
        vol_ == vol2move(vol)
        src == _getxyz(source_well)
        c1 == IF c0.is_primed = TRUE THEN c0 ELSE prime(c0, 2500)
        wells == IF destination_well.list THEN destination_well.items
                 ELSE <<destination_well.items[1]>>
    IN  transfer_loop(c1, vol_, src.x[1], src.y[1], src.z, source_well, wells, s,
                      blowout_, mix_before, mix_after)

RECURSIVE stir_loop(_, _, _, _, _)
stir_loop(c, n, height, z, radius) ==
    IF n <= 0 \/ c.err # OK THEN c
    ELSE LET w == WellData[c.current_well[1]]
             x_sp == w.x
             y_sp == w.y
             I == (-1) * radius
             c1 == IF height # None /\ height # Some(0)
                   THEN move_to_z(gcode_M400(gcode_G2(c, x_sp, y_sp, Some(z + height[1]), I)), z)
                   ELSE gcode_M400(gcode_G2(c, x_sp, y_sp, None, I))
         IN  stir_loop(c1, n - 1, height, z, radius)

\* whether stir's position check raises
stir_check(x_, y_, well) == x_ # round0(well.x) /\ y_ # round2(well.y)

stir(c, n_times, height) ==
    LET c0 == tip_check(c) IN
    IF c0.err # OK THEN c0
    ELSE IF c0.current_well = None THEN raise(c0, AttributeError)
    ELSE LET w == WellData[c0.current_well[1]]
             z == w.z + half
             pos == c0.position
         IN  IF stir_check(pos.X, pos.Y, w) THEN raise(c0, NotInWell)
             ELSE LET c1 == IF pos.Z # round2(z) THEN move_to_z(c0, z) ELSE c0
                      radius == (w.diameter \div 2) - (w.diameter \div 6)
                  IN  stir_loop(c1, n_times, height, z, radius)

\* the tip rack's tip_length and tip_overlap
tip_length == mm(30)
tip_overlap == mm(5)

update_z_offset(c, tip) ==
    IF c.err # OK THEN c
    ELSE IF ~c.tipiterator.exists THEN raise(c, AttributeError)
    ELSE LET tip_offset == tip_length - tip_overlap
             new_z == IF tip = TRUE THEN tool_offset - tip_offset ELSE tool_offset
         IN  gcode_G10(c, new_z)

\* tiprack is [list |-> whether a Python list of racks was passed, rack |-> the tips]
add_tiprack(c, tiprack) ==
    IF tiprack.list
    THEN raise(c, TypeError)
    ELSE LET c1 == [c EXCEPT !.tipiterator = pipette_iterator(tiprack.rack),
                             !.advances = [tips |-> <<>>, live |-> TRUE]]
             c2 == next(c1)
         IN  setattr(c2, "first_available_tip", c2.ret)

_pickup_tip(c, z) ==
    IF c.err # OK THEN c
    ELSE IF c.has_tip = FALSE THEN move_to_z_probe(c, z)
    ELSE raise(c, TipAlreadyAttached)

\* tip_ is None or Some(descriptor)
pickup_tip(c, tip_) ==
    LET tip == IF tip_ = None
               THEN IF c.first_available_tip = None THEN NoneLoc
                    ELSE WellLoc(c.first_available_tip[1])
               ELSE tip_[1]
    IN  IF tip.kind = "None" THEN raise(c, ValueError)
        ELSE LET xyz == _getxyz(tip)
                 c1 == safe_z_movement(c)
                 c2 == move_to_xy(c1, xyz.x[1], xyz.y[1])
                 c3 == _pickup_tip(c2, xyz.z)
                 c4 == setattr(c3, "has_tip", TRUE)
                 c5 == update_z_offset(c4, TRUE)
             IN  move_to_z(c5, safe_z + mm(10))

_drop_tip(c) ==
    IF c.err # OK THEN c
    ELSE IF c.has_tip = TRUE THEN move_to_v(c, drop_tip_position, 4000, FALSE)
    ELSE raise(c, NoTipToDrop)

\* a return_tip that takes the next tip from the rack, as drop_tip does
return_tip_advance(c, location) ==
    LET loc == IF location = None
               THEN IF c.first_available_tip = None THEN NoneLoc
                    ELSE WellLoc(c.first_available_tip[1])
               ELSE location[1]
    IN  IF loc.kind = "None" THEN raise(c, ValueError)
        ELSE LET xyz == _getxyz(loc)
                 c1 == safe_z_movement(c)
                 c2 == move_to_xy(c1, xyz.x[1], xyz.y[1])
                 c3 == move_dz(c2, -mm(25))
                 c4 == _drop_tip(c3)
                 c5 == move_dz(c4, mm(25))
                 c6 == prime(c5, 2500)
                 c7 == setattr(c6, "has_tip", FALSE)
                 c8 == update_z_offset(c7, FALSE)
                 c9 == next(c8)
             IN  setattr(c9, "first_available_tip", c9.ret)

\* location is None or Some(descriptor)
return_tip(c, location) ==
    LET loc == IF location = None
               THEN IF c.first_available_tip = None THEN NoneLoc
                    ELSE WellLoc(c.first_available_tip[1])
               ELSE location[1]
    IN  IF loc.kind = "None" THEN raise(c, ValueError)
        ELSE LET xyz == _getxyz(loc)
                 c1 == safe_z_movement(c)
                 c2 == move_to_xy(c1, xyz.x[1], xyz.y[1])
                 c3 == move_dz(c2, -mm(25))
                 c4 == _drop_tip(c3)
                 c5 == move_dz(c4, mm(25))
                 c6 == prime(c5, 2500)
                 c7 == setattr(c6, "has_tip", FALSE)
             IN  update_z_offset(c7, FALSE)

increment_tip(c) ==
    LET c1 == next(c) IN setattr(c1, "first_available_tip", c1.ret)

\* a drop_tip that leaves the tip inventory alone, as return_tip does
drop_tip_no_advance(c, location) ==
    LET c0 == tip_check(c)
        xyz == _getxyz(location)
        c1 == safe_z_movement(c0)
        c2 == IF xyz.x # None \/ xyz.y # None THEN move_to_xy(c1, xyz.x[1], xyz.y[1]) ELSE c1
        c3 == _drop_tip(c2)
        c4 == prime(c3, 2500)
        c5 == setattr(c4, "has_tip", FALSE)
    IN  update_z_offset(c5, FALSE)

drop_tip(c, location) ==
    LET c0 == tip_check(c)
        xyz == _getxyz(location)
        c1 == safe_z_movement(c0)
        c2 == IF xyz.x # None \/ xyz.y # None THEN move_to_xy(c1, xyz.x[1], xyz.y[1]) ELSE c1
        c3 == _drop_tip(c2)
        c4 == prime(c3, 2500)
        c5 == setattr(c4, "has_tip", FALSE)
        c6 == update_z_offset(c5, FALSE)
        c7 == next(c6)
    IN  setattr(c7, "first_available_tip", c7.ret)
(***************************************************************************)
(* The arguments the calls are made with.                                  *)
(***************************************************************************)
Vols == {1, 2}
A1 == WellLoc("A1")
A2 == WellLoc("A2")
A1Bottom == LocationLoc("A1", 0)
A2Above == LocationLoc("A2", mm(2))
Point == TupleLoc(mm(30), mm(10), mm(5))
Trash == TupleLoc(mm(80), mm(80), mm(40))
Locations == {A1, A2, A1Bottom, A2Above, Point}
\* transfer's arguments: <<vol, source_well, destination_well, mix_before,
\* mix_after, blowout, new_tip>>
Single(well) == [list |-> FALSE, items |-> <<well>>]
List(wells) == [list |-> TRUE, items |-> wells]
Sources == {A1, Point}
Destinations == {Single(A2), List(<<A2>>), List(<<A2, A1Bottom>>), List(<<Point, A2>>)}
NewTips == {"always", "never", "once"}
TransferArgs ==
    {<<1, src, dst, None, None, None, "always">> : src \in Sources, dst \in Destinations}
    \cup {<<2, A1, List(<<A2, A1Bottom>>), None, None, None, nt>> : nt \in NewTips}
    \cup {<<1, A1, List(<<A2>>), Some(<<1, 2>>), None, None, "always">>,
          <<1, A1, List(<<A2>>), None, Some(<<2, 1>>), None, "always">>,
          <<1, A1, List(<<A2>>), None, None, Some(A2), "always">>}
\* mix's <<vol, n>> and stir's <<n_times, height>>
MixArgs == {<<1, 0>>, <<1, 2>>, <<2, 1>>}
StirArgs == {<<1, None>>, <<2, None>>, <<1, Some(0)>>, <<1, Some(mm(1))>>}
Racks == {[list |-> FALSE, rack |-> Rack(n)] : n \in {0, MaxRack}}
            \cup {[list |-> TRUE, rack |-> Rack(1)]}
PickupTips == {None, Some(WellLoc("T1")), Some(WellLoc("T2"))}
ReturnLocations == {None, Some(WellLoc("T2"))}
DropLocations == {Trash, TupleZLoc(mm(40))}

\* what `last` records of a call: the method and its arguments
Call(op) ==
    [op |-> op, vol |-> 0, n |-> 0, location |-> None,
     source_well |-> NoneLoc, destination_well |-> [list |-> FALSE, items |-> <<>>],
     mix_before |-> None, mix_after |-> None, blowout |-> None, new_tip |-> "",
     height |-> None, tiprack |-> [list |-> FALSE, rack |-> <<>>]]

(***************************************************************************)
(* State: the Pipette's attributes, the machine's position, the commands   *)
(* the last call sent and the call itself with the exception it raised.    *)
(* z_offset is the tool z offset the machine holds: the tool's own until a  *)
(* G10 sets another.  advances is the history of the tips next() has       *)
(* returned since the iterator was made, kept until the first prev().      *)
(* inventory is the history of the rack's tips while the tool has only     *)
(* been asked add_tiprack, pickup_tip(), drop_tip and return_tip: the tip  *)
(* it holds that pickup_tip() took from the rack, and the tips it held     *)
(* when drop_tip ejected them, both since the rack was associated.         *)
(***************************************************************************)
Init ==
    /\ has_tip = FALSE
    /\ is_primed = FALSE
    /\ current_well = None
    /\ first_available_tip = None
    /\ tipiterator = [exists |-> FALSE, tiprack |-> <<>>, index |-> 0]
    /\ position \in {[X |-> 0, Y |-> 0, Z |-> safe_z, V |-> v] :
                        v \in {zero_position - 4, zero_position}}
    /\ z_offset = tool_offset
    /\ cmds = <<>>
    /\ last = [call |-> Call("__init__"), err |-> OK]
    /\ advances = [tips |-> <<>>, live |-> FALSE]
    /\ inventory = [only |-> TRUE, held |-> None, dropped |-> {}]

\* the object as a call finds it
Start ==
    [has_tip |-> has_tip, is_primed |-> is_primed, current_well |-> current_well,
     first_available_tip |-> first_available_tip, tipiterator |-> tipiterator,
     position |-> position, z_offset |-> z_offset, advances |-> advances,
     cmds |-> <<>>, err |-> OK, ret |-> None]

InBounds(r) ==
    /\ r.position.V >= zero_position - MaxTravel
    /\ r.position.V <= zero_position + MaxTravel

\* whether the call sent the machine a move of the plunger to v
Ejected(r) ==
    \E k \in 1..Len(r.cmds) :
        r.cmds[k].cmd = "move_to" /\ r.cmds[k].v = Some(drop_tip_position)

Probed(r) == \E k \in 1..Len(r.cmds) : r.cmds[k].param = "H4"

\* the inventory history after a call
InventoryAfter(call, r) ==
    IF ~inventory.only THEN inventory
    ELSE IF call.op = "add_tiprack"
         THEN IF call.tiprack.list THEN inventory
              ELSE [only |-> TRUE, held |-> None, dropped |-> {}]
    ELSE IF call.op = "pickup_tip" /\ call.location = None
         THEN IF Probed(r) THEN [inventory EXCEPT !.held = first_available_tip]
              ELSE inventory
    ELSE IF call.op = "drop_tip"
         THEN IF Ejected(r)
              THEN [inventory EXCEPT !.held = None,
                                     !.dropped = @ \cup {inventory.held[k] : k \in 1..Len(inventory.held)}]
              ELSE inventory
    ELSE IF call.op = "return_tip"
         THEN IF Ejected(r) THEN [inventory EXCEPT !.held = None] ELSE inventory
    ELSE [only |-> FALSE, held |-> None, dropped |-> {}]

\* the object as the call leaves it
Commit(call, r) ==
    /\ InBounds(r)
    /\ z_offset' = r.z_offset
    /\ inventory' = InventoryAfter(call, r)
    /\ has_tip' = r.has_tip
    /\ is_primed' = r.is_primed
    /\ current_well' = r.current_well
    /\ first_available_tip' = r.first_available_tip
    /\ tipiterator' = r.tipiterator
    /\ position' = r.position
    /\ advances' = r.advances
    /\ cmds' = r.cmds
    /\ last' = [call |-> call, err |-> r.err]

Prime == Commit(Call("prime"), prime(Start, 2500))

Aspirate ==
    \E vol \in Vols, location \in Locations :
        Commit([Call("aspirate") EXCEPT !.vol = vol, !.location = Some(location)],
               aspirate(Start, vol, location, 2000))

Dispense ==
    \E vol \in Vols, location \in Locations :
        Commit([Call("dispense") EXCEPT !.vol = vol, !.location = Some(location)],
               dispense(Start, vol, location, 2000))

Transfer ==
    \E a \in TransferArgs :
        Commit([Call("transfer") EXCEPT !.vol = a[1], !.source_well = a[2],
                    !.destination_well = a[3], !.mix_before = a[4],
                    !.mix_after = a[5], !.blowout = a[6], !.new_tip = a[7]],
               transfer(Start, a[1], a[2], a[3], 3000, a[6], a[4], a[5], a[7]))

Blowout == Commit(Call("blowout"), blowout(Start, 3000))

AirGap ==
    \E vol \in Vols :
        Commit([Call("air_gap") EXCEPT !.vol = vol], air_gap(Start, vol))

Mix ==
    \E a \in MixArgs :
        Commit([Call("mix") EXCEPT !.vol = a[1], !.n = a[2]], mix(Start, a[1], a[2], 5000))

Stir ==
    \E a \in StirArgs :
        Commit([Call("stir") EXCEPT !.n = a[1], !.height = a[2]], stir(Start, a[1], a[2]))

AddTiprack ==
    \E tiprack \in Racks :
        Commit([Call("add_tiprack") EXCEPT !.tiprack = tiprack], add_tiprack(Start, tiprack))

PickupTip ==
    \E tip_ \in PickupTips :
        Commit([Call("pickup_tip") EXCEPT !.location = tip_], pickup_tip(Start, tip_))

ReturnTip ==
    \E location \in ReturnLocations :
        Commit([Call("return_tip") EXCEPT !.location = location], return_tip(Start, location))

DropTip ==
    \E location \in DropLocations :
        Commit([Call("drop_tip") EXCEPT !.location = Some(location)], drop_tip(Start, location))

IncrementTip == Commit(Call("increment_tip"), increment_tip(Start))

\* tipiterator.prev() called on the tool's iterator
IteratorPrev ==
    /\ tipiterator.exists
    /\ tipiterator.index > -MaxUnderrun
    /\ Commit(Call("prev"), prev(Start))

Next ==
    \/ Prime \/ Aspirate \/ Dispense \/ Transfer \/ Blowout \/ AirGap \/ Mix \/ Stir
    \/ AddTiprack \/ PickupTip \/ ReturnTip \/ DropTip \/ IncrementTip \/ IteratorPrev

Spec == Init /\ [][Next]_vars
(***************************************************************************)
(* Properties.  A step of the model is one call: last' names the method    *)
(* called and its arguments, cmds' is what the call sent to the machine,   *)
(* and the unprimed variables are the object as the call found it.         *)
(***************************************************************************)
TipRequired ==
    {"aspirate", "dispense", "transfer", "blowout", "air_gap", "mix", "stir", "drop_tip"}

\* a prime: move_to(v=zero_position, s=s, wait=True)
IsPrime(command) ==
    command.cmd = "move_to" /\ command.v = Some(zero_position) /\ command.wait = TRUE

\* a plunger move to v
IsPlungerMove(command, v) ==
    command.cmd = "move_to" /\ command.v = Some(v) /\ command.wait = FALSE

IsTravel(command, x, y) ==
    command.cmd = "move_to" /\ command.x = Some(x) /\ command.y = Some(y)
        /\ command.z = None /\ command.v = None

IsZMove(command, z) ==
    command.cmd = "move_to" /\ command.z = Some(z) /\ command.x = None /\ command.v = None

\* C1: a tip-required method (aspirate, dispense, transfer, blowout, air_gap,
\* mix, stir, drop_tip) called without a tip raises the no-tip error, sends
\* the machine nothing and leaves has_tip, is_primed, current_well, the tip
\* iterator and the next tip as they were.
C1_NoTipFailsFast ==
    [][(last'.call.op \in TipRequired /\ has_tip = FALSE)
        => /\ last'.err = NoTipError
           /\ cmds' = <<>>
           /\ UNCHANGED <<has_tip, is_primed, current_well, tipiterator,
                          first_available_tip, position>>]_vars

C1_Witness ==
    /\ last.call.op = "transfer"
    /\ last.err = NoTipError
    /\ has_tip = FALSE
    /\ is_primed = TRUE
    /\ tipiterator.exists

\* C2: pickup_tip called with a tip attached, right after a pickup_tip that
\* succeeded, raises the tip-already-attached error, sends the machine nothing
\* (no retract, no travel, no probing move) and leaves has_tip true.
C2_PickupWithTipSendsNothing ==
    [][(/\ last'.call.op = "pickup_tip"
        /\ has_tip = TRUE
        /\ last.call.op = "pickup_tip" /\ last.err = OK
        /\ (last'.call.location # None \/ first_available_tip # None))
        => /\ last'.err = TipAlreadyAttached
           /\ cmds' = <<>>
           /\ has_tip' = TRUE]_vars

\* C3: has_tip is false at construction, turns true only in a pickup_tip call
\* that completes, turns false only in drop_tip or return_tip.
C3_HasTipTransitions ==
    /\ has_tip = FALSE
    /\ [][/\ (has_tip = FALSE /\ has_tip' = TRUE)
                => (last'.call.op = "pickup_tip" /\ last'.err = OK)
          /\ (has_tip = TRUE /\ has_tip' = FALSE)
                => last'.call.op \in {"drop_tip", "return_tip"}]_vars

\* C4: aspirate(vol, location) with a tip and unprimed sends a prime before
\* the plunger move that aspirates, ends primed and with the plunger at
\* zero_position - vol * mm_to_ul; already primed it sends no prime, only the
\* one plunger move down from where the plunger was.
C4_AutoPrime ==
    [][(last'.call.op = "aspirate" /\ has_tip = TRUE)
        => LET stroke == last'.call.vol * mm_to_ul IN
           IF is_primed = FALSE
           THEN /\ Len(cmds') = 5
                /\ IsPrime(cmds'[4])
                /\ IsPlungerMove(cmds'[5], zero_position - stroke)
                /\ is_primed' = TRUE
                /\ position'.V = zero_position - stroke
           ELSE /\ Len(cmds') = 4
                /\ \A k \in 1..Len(cmds') : ~IsPrime(cmds'[k])
                /\ IsPlungerMove(cmds'[4], position.V - stroke)
                /\ is_primed' = TRUE]_vars

C4_Witness ==
    /\ last.call.op = "aspirate"
    /\ last.err = OK
    /\ Len(cmds) = 5
    /\ IsPrime(cmds[4])
    /\ position.V = zero_position - 2 * mm_to_ul

\* the well a descriptor names, if any, and the z it resolves to
HasWell(location) == location.kind \in {"Well", "Location"}
ResolvedZ(location) ==
    IF location.kind = "Well" THEN WellData[location.well].z ELSE location.point[3]

\* C5 as claimed: dispense(vol, location) with a tip, for every kind of
\* descriptor: the z move is resolved z + 10 mm when the resolved z is the
\* well's z, and the resolved z otherwise.
C5_PlusTenForEveryKind ==
    [][(last'.call.op = "dispense" /\ has_tip = TRUE)
        => LET location == last'.call.location[1]
               z == ResolvedZ(location)
           IN  IF HasWell(location) /\ z = WellData[location.well].z
               THEN IsZMove(cmds'[3], z + mm(10))
               ELSE IsZMove(cmds'[3], z)]_vars

\* C5 amended: dispense(vol, location) with a tip: for a Well the z move is
\* the well's z + 10 mm; for a Location or a tuple it is the resolved z, also
\* when that is the well's z.
C5_PlusTenForWellOnly ==
    [][(last'.call.op = "dispense" /\ has_tip = TRUE)
        => LET location == last'.call.location[1]
               z == ResolvedZ(location)
           IN  IF location.kind = "Well"
               THEN IsZMove(cmds'[3], WellData[location.well].z + mm(10))
               ELSE IsZMove(cmds'[3], z)]_vars

C5_Witness ==
    /\ last.call.op = "dispense"
    /\ last.err = OK
    /\ last.call.location = Some(A1Bottom)
    /\ IsZMove(cmds[3], WellData["A1"].z)
\* the x and y a descriptor resolves to
ResolvedX(location) ==
    IF location.kind = "Well" THEN WellData[location.well].x ELSE location.point[1]
ResolvedY(location) ==
    IF location.kind = "Well" THEN WellData[location.well].y ELSE location.point[2]

IsAnyPlungerMove(command) ==
    command.cmd = "move_to" /\ command.v # None /\ command.x = None /\ command.z = None

\* C6: a transfer with a tip, one source, n >= 1 destinations and no mix or
\* blowout sends, after the prime of an unprimed tool, exactly n times:
\* retract, travel to the source, descend, plunger up (aspirate), retract,
\* travel to the i-th destination of the list, descend, plunger down
\* (dispense).
C6_TransferAlternates ==
    [][(/\ last'.call.op = "transfer"
        /\ has_tip = TRUE
        /\ last'.call.mix_before = None
        /\ last'.call.mix_after = None
        /\ last'.call.blowout = None)
        => LET src == last'.call.source_well
               dst == last'.call.destination_well.items
               n == Len(dst)
               T == IF is_primed THEN cmds' ELSE Tail(cmds')
               V0 == IF is_primed THEN position.V ELSE zero_position
           IN  /\ last'.err = OK
               /\ (~is_primed) => IsPrime(cmds'[1])
               /\ Len(T) = 8 * n
               /\ \A k \in 1..n :
                    LET b == 8 * (k - 1)
                        before == IF k = 1 THEN V0 ELSE T[b].v[1]
                    IN  /\ T[b + 1].cmd = "safe_z_movement"
                        /\ IsTravel(T[b + 2], ResolvedX(src), ResolvedY(src))
                        /\ IsZMove(T[b + 3], ResolvedZ(src))
                        /\ IsAnyPlungerMove(T[b + 4])
                        /\ T[b + 4].v[1] < before
                        /\ T[b + 5].cmd = "safe_z_movement"
                        /\ IsTravel(T[b + 6], ResolvedX(dst[k]), ResolvedY(dst[k]))
                        /\ IsZMove(T[b + 7], ResolvedZ(dst[k]))
                        /\ IsAnyPlungerMove(T[b + 8])
                        /\ T[b + 8].v[1] > T[b + 4].v[1]]_vars

C6_Witness ==
    /\ last.call.op = "transfer"
    /\ last.err = OK
    /\ last.call.destination_well = List(<<A2, A1Bottom>>)
    /\ Len(cmds) = 16
    /\ IsTravel(cmds[6], WellData["A2"].x, WellData["A2"].y)
    /\ IsTravel(cmds[10], WellData["A1"].x, WellData["A1"].y)

\* C7 as claimed: drop_tip with a tip and a tip rack, at every cursor from 0
\* up, moves the cursor on by one and makes the tip at the slot it passed the
\* next tip.
C7_DropAlwaysAdvances ==
    [][(/\ last'.call.op = "drop_tip"
        /\ has_tip = TRUE
        /\ tipiterator.exists
        /\ tipiterator.index >= 0)
        => /\ tipiterator'.index = tipiterator.index + 1
           /\ first_available_tip' = Some(tipiterator.tiprack[tipiterator.index + 1])]_vars

\* C7 amended: drop_tip with a tip and a tip rack moves the cursor on by one
\* and makes the tip at the slot it passed the next tip at every cursor from
\* 0 to length - 1; at cursor = length it drops the tip and then raises
\* StopIteration with the cursor and the next tip unchanged.
C7_DropAdvancesUntilExhausted ==
    [][(/\ last'.call.op = "drop_tip"
        /\ has_tip = TRUE
        /\ tipiterator.exists
        /\ tipiterator.index >= 0)
        => IF tipiterator.index < Len(tipiterator.tiprack)
           THEN /\ last'.err = OK
                /\ tipiterator'.index = tipiterator.index + 1
                /\ first_available_tip' = Some(tipiterator.tiprack[tipiterator.index + 1])
           ELSE /\ last'.err = StopIteration
                /\ has_tip' = FALSE
                /\ tipiterator' = tipiterator
                /\ first_available_tip' = first_available_tip]_vars

C7_Witness ==
    /\ last.call.op = "drop_tip"
    /\ last.err = StopIteration
    /\ Len(tipiterator.tiprack) = 2
    /\ tipiterator.index = 2
    /\ first_available_tip = Some("T2")
    /\ has_tip = FALSE

\* C8: return_tip, with or without a location, leaves the cursor and the
\* next tip as they were, and pickup_tip() right after a return_tip() that
\* succeeded travels to the x, y the tip was returned to.
C8_ReturnKeepsInventory ==
    [][/\ (last'.call.op = "return_tip")
            => UNCHANGED <<tipiterator, first_available_tip>>
       /\ (/\ last.call.op = "return_tip" /\ last.call.location = None /\ last.err = OK
           /\ last'.call.op = "pickup_tip" /\ last'.call.location = None)
            => /\ cmds[2].cmd = "move_to" /\ cmds[2].x # None /\ cmds[2].y # None
               /\ IsTravel(cmds'[2], cmds[2].x[1], cmds[2].y[1])
               /\ last'.err = OK]_vars

C8_Witness ==
    /\ last.call.op = "return_tip"
    /\ last.call.location = None
    /\ last.err = OK
    /\ has_tip = FALSE
    /\ tipiterator.index = 2
    /\ first_available_tip = Some("T2")

\* C9: while only next() has been called on an iterator over a rack of N tips
\* (N >= 0), the k-th call, k <= N, returns the k-th tip of the rack and
\* leaves the cursor at k, and every call after the N-th raises StopIteration
\* with the cursor unchanged.  add_tiprack makes the iterator and calls
\* next() once; increment_tip calls it again.
C9_AdvanceInRackOrder ==
    [][/\ advances'.live
            => /\ Len(advances'.tips) <= Len(tipiterator'.tiprack)
               /\ advances'.tips = SubSeq(tipiterator'.tiprack, 1, Len(advances'.tips))
               /\ tipiterator'.index = Len(advances'.tips)
       /\ (last'.call.op = "add_tiprack" /\ ~last'.call.tiprack.list)
            => LET rack == last'.call.tiprack.rack IN
               /\ tipiterator'.tiprack = rack
               /\ IF Len(rack) >= 1
                  THEN /\ last'.err = OK
                       /\ tipiterator'.index = 1
                       /\ first_available_tip' = Some(rack[1])
                  ELSE /\ last'.err = StopIteration
                       /\ tipiterator'.index = 0
       /\ (last'.call.op = "increment_tip" /\ advances.live)
            => LET rack == tipiterator.tiprack
                   k == tipiterator.index + 1
               IN  IF k <= Len(rack)
                   THEN /\ last'.err = OK
                        /\ tipiterator'.index = k
                        /\ first_available_tip' = Some(rack[k])
                        /\ advances'.tips = Append(advances.tips, rack[k])
                   ELSE /\ last'.err = StopIteration
                        /\ tipiterator' = tipiterator
                        /\ advances' = advances]_vars

C9_Witness ==
    /\ last.call.op = "increment_tip"
    /\ last.err = StopIteration
    /\ advances.live
    /\ advances.tips = <<"T1", "T2">>
    /\ tipiterator.index = 2

\* C10: after any calls of next() and prev(), failed ones included, the
\* cursor is within 0..length of the rack; prev() at cursor 0 and next() at
\* cursor = length fail.
C10_CursorInRange ==
    [][/\ tipiterator'.exists
            => /\ 0 <= tipiterator'.index
               /\ tipiterator'.index <= Len(tipiterator'.tiprack)
       /\ (last'.call.op = "prev" /\ tipiterator.index = 0)
            => last'.err = StopIteration
       /\ (last'.call.op = "increment_tip" /\ tipiterator.exists
              /\ tipiterator.index = Len(tipiterator.tiprack))
            => last'.err = StopIteration]_vars

\* the methods that act on the well the tool is in
NeedsWell == {"blowout", "air_gap", "stir"}

\* C11: blowout, air_gap or stir called with a tip attached while current_well is
\* None raises the ToolStateError of a tool that is not in a well and sends the
\* machine nothing.  The tip is one a completed pickup_tip has just attached.
C11_NotPositionedFailsFast ==
    [][(/\ last'.call.op \in NeedsWell
        /\ last.call.op = "pickup_tip" /\ last.err = OK
        /\ has_tip = TRUE /\ current_well = None)
        => /\ last'.err = NotInWell
           /\ cmds' = <<>>]_vars

\* the transfer of last'.call made on the object as it was, with new_tip as given
TransferWith(new_tip) ==
    transfer(Start, last'.call.vol, last'.call.source_well, last'.call.destination_well,
             3000, last'.call.blowout, last'.call.mix_before, last'.call.mix_after, new_tip)

\* each new_tip paired with another, so that the pairs link all three
OtherNewTip == [new_tip \in NewTips |->
                    CASE new_tip = "always" -> "never"
                      [] new_tip = "never" -> "once"
                      [] OTHER -> "always"]

\* C12: new_tip does nothing.  Two transfers made from the same state with
\* arguments that differ only in new_tip send the same commands and leave the
\* same object and machine, and no transfer changes has_tip, the tip iterator
\* or first_available_tip.
C12_NewTipIsNoOp ==
    [][last'.call.op = "transfer"
        => /\ UNCHANGED <<has_tip, tipiterator, first_available_tip>>
           /\ \A a \in TransferArgs :
                (/\ a[7] = OtherNewTip[last'.call.new_tip]
                 /\ <<a[1], a[2], a[3], a[4], a[5], a[6]>> =
                        <<last'.call.vol, last'.call.source_well,
                          last'.call.destination_well, last'.call.mix_before,
                          last'.call.mix_after, last'.call.blowout>>)
                => TransferWith(a[7]) =
                    [has_tip |-> has_tip', is_primed |-> is_primed',
                     current_well |-> current_well',
                     first_available_tip |-> first_available_tip',
                     tipiterator |-> tipiterator', position |-> position',
                     z_offset |-> z_offset', advances |-> advances',
                     cmds |-> cmds', err |-> last'.err, ret |-> None]]_vars

\* a completed transfer to two destinations called with new_tip = 'never'
C12_Witness ==
    /\ last.call.op = "transfer"
    /\ last.call.new_tip = "never"
    /\ last.err = OK
    /\ Len(last.call.destination_well.items) = 2
    /\ Len(cmds) >= 16

\* the tool holds a tip that a completed pickup_tip attached
TipPickedUp == has_tip = TRUE /\ z_offset = tool_offset - (tip_length - tip_overlap)

\* the plunger positions that the moves of a command sequence ask for, in order
RECURSIVE PlungerTrace(_)
PlungerTrace(T) ==
    IF T = <<>> THEN <<>>
    ELSE IF Head(T).cmd = "move_to" /\ Head(T).v # None
         THEN <<Head(T).v[1]>> \o PlungerTrace(Tail(T))
         ELSE PlungerTrace(Tail(T))

\* C13: in a transfer the aspirate step pulls the plunger back by vol * mm_to_ul
\* and the dispense step pushes it forward by vol * mm_to_ul, as aspirate(vol)
\* and dispense(vol) do: a primed transfer of vol to one destination with no
\* mixing and no blowout moves the plunger to zero_position - vol * mm_to_ul
\* and back to zero_position.
C13_TransferMovesVolTimesK ==
    [][(/\ last'.call.op = "transfer" /\ last'.err = OK
        /\ TipPickedUp
        /\ is_primed = TRUE /\ position.V = zero_position
        /\ Len(last'.call.destination_well.items) = 1
        /\ last'.call.mix_before = None /\ last'.call.mix_after = None
        /\ last'.call.blowout = None)
        => PlungerTrace(cmds') =
             <<zero_position - last'.call.vol * mm_to_ul, zero_position>>]_vars

\* the plunger trace of mix(vol, n) called by a tool with a tip in a well: the
\* prime, then n times the aspirate of vol and the prime
MixTrace(vol, n) ==
    PlungerTrace(mix([Start EXCEPT !.has_tip = TRUE, !.current_well = Some("A1")],
                     vol, n, 5000).cmds)

\* C14: a transfer called with mix_before, or mix_after, = (count, volume) mixes
\* count times with volume: between its aspirate and its dispense (mix_before),
\* or after its dispense (mix_after), the plunger makes the moves of
\* mix(vol=volume, n=count).
C14_TransferMixesCountTimes ==
    [][(/\ last'.call.op = "transfer" /\ last'.err = OK
        /\ TipPickedUp
        /\ Len(last'.call.destination_well.items) = 1
        /\ last'.call.blowout = None)
        => LET T == PlungerTrace(cmds')
               first == IF is_primed THEN 1 ELSE 2
               before == last'.call.mix_before
               after == last'.call.mix_after
           IN  /\ (before # None /\ after = None)
                    => SubSeq(T, first + 1, Len(T) - 1) = MixTrace(before[1][2], before[1][1])
               /\ (after # None /\ before = None)
                    => SubSeq(T, first + 2, Len(T)) = MixTrace(after[1][2], after[1][1])]_vars

\* C15: air_gap(vol) called with a tip in a well raises the tip to 20 mm above the
\* well's top and then makes one relative plunger move that pulls the plunger
\* back by vol * mm_to_ul; it sends no x/y move and no move to zero_position.
C15_AirGapRetracts ==
    [][(/\ last'.call.op = "air_gap"
        /\ TipPickedUp /\ current_well # None)
        => /\ last'.err = OK
           /\ Len(cmds') = 2
           /\ IsZMove(cmds'[1], WellData[current_well[1]].top_ + mm(20))
           /\ cmds'[2].cmd = "move" /\ cmds'[2].v # None
           /\ cmds'[2].x = None /\ cmds'[2].y = None /\ cmds'[2].z = None
           /\ position'.V = position.V - last'.call.vol * mm_to_ul
           /\ position'.X = position.X /\ position'.Y = position.Y]_vars

\* C16: stir raises ToolStateError and sends the machine nothing whenever the
\* tool's x or its y is not that of current_well (to two decimals), and goes on
\* to stir only when both agree.
C16_StirOnlyInWell ==
    [][(/\ last'.call.op = "stir"
        /\ TipPickedUp /\ current_well # None)
        => IF \/ position.X # WellData[current_well[1]].x
              \/ position.Y # WellData[current_well[1]].y
           THEN last'.err = NotInWell /\ cmds' = <<>>
           ELSE last'.err = OK /\ cmds' # <<>>]_vars

TipOps == {"pickup_tip", "drop_tip", "return_tip"}

\* the z offset the tool should have: its own less the tip's reach with a tip
\* attached, its own without one
OffsetFor(tip) == IF tip = TRUE THEN tool_offset - (tip_length - tip_overlap) ELSE tool_offset

\* C17: once a tip rack is associated, after every pickup_tip, drop_tip or
\* return_tip call, completed or failed, the z offset last commanded to the
\* machine is the baseline less (tip_length - tip_overlap) when has_tip is true
\* and the baseline when has_tip is false.
C17_OffsetFollowsTip ==
    [][(last'.call.op \in TipOps /\ tipiterator.exists)
        => z_offset' = OffsetFor(has_tip')]_vars

\* C18: while the tool is only asked add_tiprack, pickup_tip(), drop_tip and
\* return_tip, a tip that drop_tip ejected is not picked up again: no later
\* pickup_tip() travels to the slot of a tip the tool held when drop_tip was
\* called, and once the rack is exhausted first_available_tip is None.  The
\* rack is one that has tips.
C18_DroppedTipsNotReused ==
    [][(inventory'.only /\ tipiterator.tiprack # <<>>)
        => /\ (last'.call.op = "pickup_tip" /\ last'.call.location = None /\ cmds' # <<>>)
                => first_available_tip[1] \notin inventory.dropped
           /\ (last'.call.op = "drop_tip" /\ last'.err = StopIteration)
                => first_available_tip' = None]_vars

\* C19 as amended: after a completed aspirate or dispense at a Well or a
\* Location, current_well is the well of that location; after one at a tuple,
\* current_well is what it was before the call.
C19_CurrentWellFollowsWells ==
    [][(last'.call.op \in {"aspirate", "dispense"} /\ last'.err = OK)
        => IF HasWell(last'.call.location[1])
           THEN current_well' = Some(last'.call.location[1].well)
           ELSE UNCHANGED current_well]_vars

\* a completed aspirate or dispense at a tuple has left the tip away from
\* current_well, the well of an earlier call
C19_Witness ==
    /\ last.call.op \in {"aspirate", "dispense"}
    /\ last.err = OK
    /\ last.call.location[1].kind = "Tuple"
    /\ current_well # None
    /\ WellData[current_well[1]].x # position.X

\* C19 as claimed: after every completed aspirate or dispense, whatever the kind of its
\* location (Well, tuple or Location), current_well is the well the call moved
\* the tip to, never the well of an earlier call: the location's well when it
\* has one, and no well that lies elsewhere than the call's x and y.
C19_CurrentWellIsThisCalls ==
    [][(/\ last'.call.op \in {"aspirate", "dispense"} /\ last'.err = OK
        /\ TipPickedUp)
        => LET location == last'.call.location[1] IN
           IF HasWell(location)
           THEN current_well' = Some(location.well)
           ELSE current_well' # None
                    => /\ WellData[current_well'[1]].x = position'.X
                       /\ WellData[current_well'[1]].y = position'.Y]_vars

\* C20: return_tip called with has_tip false raises the ToolConfigurationError of
\* a tool with no tip to drop before it sends the machine anything (no retract,
\* no x/y travel, no relative z descent) and leaves has_tip, is_primed, the tool
\* z offset and the tip iterator as they were.
C20_ReturnWithoutTipSendsNothing ==
    [][(/\ last'.call.op = "return_tip" /\ has_tip = FALSE
        /\ tipiterator.exists /\ first_available_tip # None)
        => /\ last'.err = NoTipToDrop
           /\ cmds' = <<>>
           /\ UNCHANGED <<has_tip, is_primed, z_offset, tipiterator, first_available_tip>>]_vars

\* the methods that travel
TravelOps == {"aspirate", "dispense", "transfer", "pickup_tip", "drop_tip", "return_tip"}

\* a move_to(x=.., y=..)
IsXYMove(command) == command.cmd = "move_to" /\ command.x # None /\ command.y # None

\* a move_to(z=..)
IsAbsZMove(command) == command.cmd = "move_to" /\ command.z # None

\* C21: in the commands of every aspirate, dispense, transfer, pickup_tip,
\* drop_tip and return_tip call, each move_to(x, y) comes directly after a
\* safe_z_movement of the same call, and each move_to(z) comes after a
\* move_to(x, y) of the same call; so no descent lies between a retract and
\* its travel.
C21_RetractTravelDescend ==
    last.call.op \in TravelOps
        => /\ \A k \in 1..Len(cmds) :
                IsXYMove(cmds[k]) => (k > 1 /\ cmds[k - 1].cmd = "safe_z_movement")
           /\ \A k \in 1..Len(cmds) :
                IsAbsZMove(cmds[k]) => \E j \in 1..(k - 1) : IsXYMove(cmds[j])

\* a completed transfer to two destinations: four travels, each after a retract
\* and before its descent
C21_Witness ==
    /\ last.call.op = "transfer"
    /\ last.err = OK
    /\ Len(last.call.destination_well.items) = 2
    /\ \E k \in 2..(Len(cmds) - 1) :
            /\ cmds[k - 1].cmd = "safe_z_movement"
            /\ IsXYMove(cmds[k])
            /\ IsAbsZMove(cmds[k + 1])

\* the methods that call prime: prime itself, the auto-prime of _aspirate and
\* transfer, and the re-prime of blowout, mix, drop_tip and return_tip
PrimingOps == {"prime", "aspirate", "transfer", "blowout", "mix", "drop_tip", "return_tip"}

SendsPrime(T) == \E k \in 1..Len(T) : IsPrime(T[k])

\* C22: is_primed is false at construction, turns true only in a call that
\* primes (prime, an auto-prime, or the re-prime of blowout, mix, drop_tip or
\* return_tip), and is never set back to false; so an aspirate, or a transfer
\* without mixing and blowout, made by a primed tool sends no prime, wherever
\* the plunger is.
C22_PrimedIsMonotone ==
    /\ is_primed = FALSE
    /\ [][/\ is_primed = TRUE => is_primed' = TRUE
          /\ (is_primed = FALSE /\ is_primed' = TRUE)
                => (last'.call.op \in PrimingOps /\ SendsPrime(cmds'))
          /\ (/\ is_primed = TRUE
              /\ \/ last'.call.op = "aspirate"
                 \/ /\ last'.call.op = "transfer"
                    /\ last'.call.mix_before = None
                    /\ last'.call.mix_after = None
                    /\ last'.call.blowout = None)
                => ~SendsPrime(cmds')]_vars

\* a completed aspirate that a primed tool made with the plunger away from
\* zero_position, without a prime
C22_Witness ==
    /\ last.call.op = "aspirate"
    /\ last.err = OK
    /\ is_primed = TRUE
    /\ ~SendsPrime(cmds)
    /\ position.V + last.call.vol * mm_to_ul # zero_position
====
